---- MODULE Spec2Model ----
(***************************************************************************)
(* A model of the client side of sd-runpod-worker: the caching img2img     *)
(* client (client/caching_img2img.py) and the parallel scene dispatcher    *)
(* (client/parallel_scene_img2img.py).                                     *)
(*                                                                         *)
(* Text (file names, hex digests) is a sequence of one-character strings.  *)
(* A file is a name mapped to its content; a directory is a function from  *)
(* the names that exist to their contents.                                 *)
(***************************************************************************)
EXTENDS Integers, Sequences, FiniteSets, TLC

\* ------------------------------------------------------------------ bounds
\* The longest work list main enqueues.
MaxItems == 3
\* The largest --threads value.
MaxThreads == 2
\* The largest frame number of a dispatched work item.
MaxFrame == 1
\* The largest max_retries a direct caller of get_or_run passes.
MaxRetriesArg == 3
\* How many get_or_run calls one direct caller makes.
MaxCalls == 2

\* get_or_run(self, image_path, prompt, max_retries=3, retry_delay=0.5)
DefaultMaxRetries == 3

\* ------------------------------------------------------------------- text
Digits == <<"0", "1", "2", "3", "4", "5", "6", "7", "8", "9">>

IsDigit(c) == \E d \in 1..10 : Digits[d] = c

\* str(n) for n >= 0
RECURSIVE IntToText(_)
IntToText(n) ==
    IF n < 10 THEN <<Digits[n + 1]>>
    ELSE IntToText(n \div 10) \o <<Digits[(n % 10) + 1]>>

RECURSIVE ZeroFill(_, _)
ZeroFill(t, width) == IF Len(t) >= width THEN t ELSE ZeroFill(<<"0">> \o t, width)

\* f"{n:05d}" for n >= 0: at least five digits, zero-filled on the left
PadWidth == 5
Format05d(n) == ZeroFill(IntToText(n), PadWidth)

FramePrefix == <<"f", "r", "a", "m", "e", "_">>
PngSuffix == <<".", "p", "n", "g">>
Underscore == <<"_">>
Unknown == <<"u", "n", "k", "n", "o", "w", "n">>

Slash == "/"
\* main's input_dir argument in the dispatcher
InputDir == <<"i", "n">>

\* os.path.join(input_dir, f"frame_{frame_num:05d}.png")
InputPath(input_dir, frame_num) ==
    input_dir \o <<Slash>> \o FramePrefix \o Format05d(frame_num) \o PngSuffix

\* the position of the last "/" of path, 0 when it has none
RECURSIVE LastSlash(_, _)
LastSlash(path, i) ==
    IF i = 0 THEN 0 ELSE IF path[i] = Slash THEN i ELSE LastSlash(path, i - 1)

\* a mutant of Basename: the whole path is matched
BasenameWhole(path) == path

\* os.path.basename(path)
Basename(path) == SubSeq(path, LastSlash(path, Len(path)) + 1, Len(path))

StartsWith(t, prefix) ==
    Len(t) >= Len(prefix) /\ SubSeq(t, 1, Len(prefix)) = prefix

\* the longest run of digits of t that starts at position i
RECURSIVE DigitRun(_, _)
DigitRun(t, i) ==
    IF i <= Len(t) /\ IsDigit(t[i]) THEN <<t[i]>> \o DigitRun(t, i + 1) ELSE <<>>

\* re.match(r"frame_(\d+)", basename): group 1, or "unknown" when there is no match
FrameNumberOf(basename) ==
    IF StartsWith(basename, FramePrefix) /\ DigitRun(basename, Len(FramePrefix) + 1) # <<>>
    THEN DigitRun(basename, Len(FramePrefix) + 1)
    ELSE Unknown

\* hashlib.sha256(prompt.encode("utf-8")).hexdigest(), tabulated for the prompts
\* of the model ("p", "q" and the empty prompt)
Sha256Hex(prompt) ==
    CASE prompt = "p" ->
           <<"1","4","8","d","e","9","c","5","a","7","a","4","4","d","1","9",
             "e","5","6","c","d","9","a","e","1","a","5","5","4","b","f","6",
             "7","8","4","7","a","f","b","0","c","5","8","f","6","e","1","2",
             "f","a","2","9","a","c","7","d","d","f","c","a","9","9","4","0">>
      [] prompt = "q" ->
           <<"8","e","3","5","c","2","c","d","3","b","f","6","6","4","1","b",
             "d","b","0","e","2","0","5","0","b","7","6","9","3","2","c","b",
             "b","2","e","6","0","3","4","a","0","d","d","a","c","c","1","d",
             "9","b","e","a","8","2","a","6","b","a","5","7","f","7","c","f">>
      [] OTHER ->
           <<"e","3","b","0","c","4","4","2","9","8","f","c","1","c","1","4",
             "9","a","f","b","f","4","c","8","9","9","6","f","b","9","2","4",
             "2","7","a","e","4","1","e","4","6","4","9","b","9","3","4","c",
             "a","4","9","5","9","9","1","b","7","8","5","2","b","8","5","5">>

HashLen == 8
\* the [:8] slice of a hex digest
Take(t, n) == SubSeq(t, 1, IF Len(t) < n THEN Len(t) ELSE n)

\* hashlib.md5(prompt.encode('utf-8')).hexdigest(), tabulated for the same prompts
Md5Hex(prompt) ==
    CASE prompt = "p" ->
           <<"8","3","8","7","8","c","9","1","1","7","1","3","3","8","9","0",
             "2","e","0","f","e","0","f","b","9","7","a","8","c","4","7","a">>
      [] prompt = "q" ->
           <<"7","6","9","4","f","4","a","6","6","3","1","6","e","5","3","c",
             "8","c","d","d","9","d","9","9","5","4","b","d","6","1","1","d">>
      [] OTHER ->
           <<"d","4","1","d","8","c","d","9","8","f","0","0","b","2","0","4",
             "e","9","8","0","0","9","9","8","e","c","f","8","4","2","7","e">>

\* CachingImg2ImgClient._generate_cache_key
generate_cache_key(prompt) == Md5Hex(prompt)

\* the position of the last "_" of t at or before i, 0 when there is none
RECURSIVE LastUnderscore(_, _)
LastUnderscore(t, i) ==
    IF i = 0 THEN 0 ELSE IF <<t[i]>> = Underscore THEN i ELSE LastUnderscore(t, i - 1)

\* len(filename.split("_"))
PartCount(t) == Cardinality({i \in 1..Len(t) : <<t[i]>> = Underscore}) + 1

\* filename.split("_")[-1]
LastPart(t) == SubSeq(t, LastUnderscore(t, Len(t)) + 1, Len(t))

\* PROMPT_HASH_FILE
RegistryName == <<"p","r","o","m","p","t","_","h","a","s","h","e","s",".","j","s","o","n">>

\* a mutant of compute_hash_prefix: a shorter slice of the digest
compute_hash_prefix_short(prompt) == Take(Sha256Hex(prompt), HashLen - 1)

\* CachingImg2ImgClient.compute_hash_prefix, and the same expression in _cache_key
compute_hash_prefix(prompt) == Take(Sha256Hex(prompt), HashLen)

\* CachingImg2ImgClient._cache_key
cache_key(image_path, prompt) ==
    FramePrefix \o FrameNumberOf(Basename(image_path)) \o Underscore
        \o compute_hash_prefix(prompt) \o PngSuffix

\* parallel_client.frame_processor_worker.get_cache_key
get_cache_key(frame_number, prompt) ==
    FramePrefix \o Format05d(frame_number) \o Underscore
        \o Take(Sha256Hex(prompt), HashLen) \o PngSuffix


\* ------------------------------------------------------------------ state
None == "None"
\* an entry opened with "wb" whose payload has not (or not wholly) been written
Partial == <<"partial">>
\* no image data (a bytes local that is not set)
NoData == <<>>
Prompts == {"p", "q"}
CacheDir == "cache_dir"

Procs == 1..MaxThreads

VARIABLES
    mode,         \* which program runs: "dispatch" (main) or "direct" (callers of get_or_run)
    no_cache,     \* main's no_cache argument
    threads,      \* main's threads argument
    frame_queue,  \* main's work list after random.shuffle: <<frame_num, prompt>> items
    mainpc,       \* main's position
    nstarted,     \* processes started so far (len(processes))
    nstops,       \* stop markers put so far
    njoined,      \* processes joined so far
    q,            \* the multiprocessing Queue: indices into frame_queue, 0 for None
    total_frames, \* the total_frames main hands to every worker
    counter,      \* the shared Value('i')
    lock,         \* counter.get_lock(): its holder, 0 when free
    cache,        \* the cache directory: entry name -> content
    output,       \* the output directory: frame number -> content
    wk,           \* each process's locals
    hist,         \* history: what has happened so far
    keycalc,      \* the inputs and results of the cache key computations
    env,          \* the environment after load_dotenv(): which settings have a value
    dirs,         \* the directories that exist
    registry,     \* the prompt-hash registry file: whether it exists, and its prompts
    maint,        \* the last clear_cache_except call: its arguments, the cache before and after
    pcl,          \* parallel_client: main's arguments and locals, its queue and its threads
    sched,        \* main's inputs and locals while it builds the work list: the rows of
                  \* scenes.csv, the input frames present, scene_names, scene_ranges
    report,       \* the inputs and the text of the last ETA computation of a worker
    regclient,    \* a client's in-memory prompt_hashes, and the calls made on it
    decache       \* the last find_and_decache_frame call: its arguments, the files before

vars == <<mode, no_cache, threads, frame_queue, mainpc, nstarted, nstops, njoined,
          q, total_frames, counter, lock, cache, output, wk, hist, keycalc,
          env, dirs, registry, maint, pcl, sched, report, regclient, decache>>

mainVars == <<mainpc, nstarted, nstops, njoined>>
\* what no step of the dispatcher or of get_or_run changes
toolVars == <<sched, report, regclient, decache>>
argVars == <<mode, no_cache, threads, frame_queue, keycalc, env, maint, pcl, toolVars>>
\* the cache directory itself and the registry file in it
fileVars == <<dirs, registry>>

\* no registry file; _load_prompt_hashes then gives the empty mapping
NoRegistry == [exists |-> FALSE, prompt_hashes |-> [pr \in {} |-> <<>>]]

\* main is not building a work list, no ETA has been computed, no client holds a
\* mapping, find_and_decache_frame has not been called
NoSched == [program |-> "none", scenes |-> <<>>, present |-> {}, scene_names |-> {},
            scene_ranges |-> <<>>, prompts |-> {}, warnings |-> {}]
NoReport == [calls |-> 0, total_frames |-> 0, total_written |-> 0, elapsed |-> 0,
             eta_str |-> <<>>]
NoRegClient == [alive |-> FALSE, prompt_hashes |-> [pr \in {} |-> <<>>], loads |-> 0,
                calls |-> 0, prompts |-> {}]
NoDecache == [calls |-> 0, frame_number |-> 0, dry_run |-> FALSE,
              cache_before |-> [k \in {} |-> NoData], output_before |-> [k \in {} |-> NoData]]
InitTools ==
    /\ sched = NoSched
    /\ report = NoReport
    /\ regclient = NoRegClient
    /\ decache = NoDecache

\* parallel_client is not running
NoClient == [pc |-> "none"]

\* no clear_cache_except call has been made
NoMaint == [calls |-> 0, prompts_to_keep |-> {}, dry_run |-> FALSE,
            before |-> [k \in {} |-> NoData], after |-> [k \in {} |-> NoData]]

\* os.getenv of the two settings: TRUE when the value is set and not empty
Environments == [API_KEY : BOOLEAN, ENDPOINT_ID : BOOLEAN]
EnvSet == [API_KEY |-> TRUE, ENDPOINT_ID |-> TRUE]

NoKeyCalc == [frame |-> 0, prompt |-> "", calls |-> 0, via_path |-> <<>>,
              via_number |-> <<>>, first |-> <<>>]

\* the locals of a process that is not inside get_or_run
NoCall ==
    [item |-> 0, frame_num |-> 0, input_path |-> <<>>, prompt |-> None,
     max_retries |-> 0, attempt |-> 0, requests |-> 0, sleeps |-> 0, hit |-> FALSE,
     last_exception |-> None, output_image_data |-> NoData, result |-> NoData,
     raised |-> None, read_from |-> NoData, tmp |-> 0, last_cause |-> None,
     answered |-> 0]

\* what a direct caller remembers of its previous get_or_run call
NoPrev == [key |-> <<>>, outcome |-> None, result |-> NoData, requests |-> 0]

IdleProc(caller) ==
    [pc |-> "unstarted", caller |-> caller, cache_dir |-> None, calls |-> 0,
     prev |-> NoPrev] @@ NoCall

\* the items of the work lists: frames 0..MaxFrame with prompt "p", and frame 0
\* with prompt "q" as well (two scenes whose ranges overlap on it)
WorkItems == {it \in (0..MaxFrame) \X Prompts : it[1] = 0 \/ it[2] = "p"}
ItemRank(it) == 2 * it[1] + (IF it[2] = "p" THEN 0 ELSE 1)
\* the work lists main can build, repeated items (overlapping scene ranges)
\* included. random.shuffle makes every order of a list possible; the lists are
\* taken up to order, in the order of ItemRank
WorkLists ==
    UNION {{l \in [1..n -> WorkItems] :
              \A i \in 1..(n - 1) : ItemRank(l[i]) <= ItemRank(l[i + 1])} : n \in 0..MaxItems}

NoHistory ==
    [attempted |-> <<>>, outcome |-> <<>>, markers |-> [w \in Procs |-> 0],
     reports |-> {}, remote |-> [k \in WorkItems |-> 0], returned |-> {},
     registry_writes |-> {}]

OutputDir == "output_dir"

\* cache_dir if not no_cache else None
CacheDirArg == IF no_cache THEN None ELSE CacheDir

\* CachingImg2ImgClient.__init__: "ok", or the exception it raises.
\* os.path.join(cache_dir, PROMPT_HASH_FILE) raises TypeError when cache_dir is None.
ClientInit(cache_dir) == IF cache_dir = None THEN "TypeError" ELSE "ok"

Init ==
    /\ mode = "dispatch"
    /\ keycalc = NoKeyCalc
    /\ env \in Environments
    /\ dirs = {}
    /\ registry = NoRegistry
    /\ maint = NoMaint
    /\ pcl = NoClient
    /\ InitTools
    /\ no_cache \in BOOLEAN
    /\ threads \in 1..MaxThreads
    /\ frame_queue \in WorkLists
    /\ mainpc = "import"
    /\ nstarted = 0 /\ nstops = 0 /\ njoined = 0
    /\ q = <<>>
    /\ total_frames = 0
    /\ counter = 0
    /\ lock = 0
    /\ cache = [k \in {} |-> NoData]
    /\ output = [k \in {} |-> NoData]
    /\ wk = [w \in Procs |-> IdleProc("worker")]
    /\ hist = [NoHistory EXCEPT !.attempted = [i \in 1..Len(frame_queue) |-> 0],
                                !.outcome = [i \in 1..Len(frame_queue) |-> "none"]]

\* ------------------------------------------------------------------- main
\* a mutant of ConfigOk: only the API key is checked
ConfigOkKeyOnly(e) == e.API_KEY

\* caching_img2img, lines 9-14: both settings must have a value
ConfigOk(e) == e.API_KEY /\ e.ENDPOINT_ID

\* parallel_scene_img2img, lines 1-8: the imports at the head of the module. The
\* import of caching_img2img runs its configuration check, which raises ValueError
\* when a setting is missing; nothing of main has run by then.
ImportModules ==
    /\ mode = "dispatch" /\ mainpc = "import"
    /\ mainpc' = IF ConfigOk(env) THEN "begin" ELSE "config_error"
    /\ UNCHANGED <<argVars, fileVars, nstarted, nstops, njoined, q, total_frames, counter,
                   lock, cache, output, wk, hist>>

\* main, line 74: the prompts of the scenes that are dispatched
ScenePrompts == {frame_queue[i][2] : i \in 1..Len(frame_queue)}

\* _load_prompt_hashes, lines 26-31: the mapping of the file, empty without a file
LoadPromptHashes(reg) == IF reg.exists THEN reg.prompt_hashes ELSE [pr \in {} |-> <<>>]

\* a mutant of AddPromptHashes: the mapping is made anew from the prompts given
AddPromptHashesAnew(hashes, prompts) == [pr \in prompts |-> compute_hash_prefix(pr)]

\* update_prompt_hashes, lines 44-46: a prompt not yet in the mapping is added with
\* its hash prefix; a prompt that is in it keeps its value
AddPromptHashes(hashes, prompts) ==
    [pr \in DOMAIN hashes \cup prompts |->
        IF pr \in DOMAIN hashes THEN hashes[pr] ELSE compute_hash_prefix(pr)]

\* _save_prompt_hashes, lines 33-37: json.dump of the whole mapping into the file
\* opened with "w"
SavePromptHashes(hashes) == [exists |-> TRUE, prompt_hashes |-> hashes]

\* the registry file after a new client loaded it and update_prompt_hashes ran
\* (lines 23, 43-48)
UpdatedRegistry(old, prompts) ==
    SavePromptHashes(AddPromptHashes(LoadPromptHashes(old), prompts))

\* main, lines 70-75: the output directory is made, then the dispatcher's own
\* client. With no_cache the constructor raises and main ends there; otherwise the
\* cache directory exists from here on, the registry is loaded, and
\* update_prompt_hashes writes it.
MainClient ==
    /\ mode = "dispatch" /\ mainpc = "begin"
    /\ IF ClientInit(CacheDirArg) = "ok"
       THEN /\ mainpc' = "enqueue"
            /\ dirs' = dirs \cup {OutputDir, CacheDir}
            /\ registry' = UpdatedRegistry(registry, ScenePrompts)
            /\ hist' = [hist EXCEPT !.registry_writes =
                           @ \cup {[by |-> "main", started |-> nstarted]}]
       ELSE /\ mainpc' = "raised"
            /\ dirs' = dirs \cup {OutputDir}
            /\ UNCHANGED <<registry, hist>>
    /\ UNCHANGED <<argVars, nstarted, nstops, njoined, q, total_frames, counter, lock,
                   cache, output, wk>>

\* a mutant of TotalFramesArg: a total that counts one frame more than was
\* enqueued (as the len(frame_files) of line 64 does when a frame is not queued)
TotalFramesStale == Len(frame_queue) + 1

\* main, line 95: total_frames = len(frame_queue)
TotalFramesArg == Len(frame_queue)

\* main, lines 89-95: every item is put on the queue, then the shared values are made
MainEnqueue ==
    /\ mainpc = "enqueue"
    /\ q' = [i \in 1..Len(frame_queue) |-> i]
    /\ counter' = 0
    /\ total_frames' = TotalFramesArg
    /\ mainpc' = "start"
    /\ UNCHANGED <<argVars, fileVars, nstarted, nstops, njoined, lock, cache, output, wk, hist>>

\* main, lines 98-101: one p.start()
MainStart ==
    /\ mainpc = "start"
    /\ nstarted' = nstarted + 1
    /\ wk' = [wk EXCEPT ![nstarted + 1].pc = "init", ![nstarted + 1].cache_dir = CacheDirArg]
    /\ mainpc' = IF nstarted + 1 < threads THEN "start" ELSE "stop"
    /\ UNCHANGED <<argVars, fileVars, nstops, njoined, q, total_frames, counter, lock, cache,
                   output, hist>>

\* a mutant of PutMarker: the stop marker overtakes what is queued
PutMarkerFirst(queue) == <<0>> \o queue

\* q.put(None): the queue is first-in first-out
PutMarker(queue) == Append(queue, 0)

\* main, lines 102-103: one q.put(None)
MainPutStop ==
    /\ mainpc = "stop"
    /\ q' = PutMarker(q)
    /\ nstops' = nstops + 1
    /\ mainpc' = IF nstops + 1 < threads THEN "stop" ELSE "join"
    /\ UNCHANGED <<argVars, fileVars, nstarted, njoined, total_frames, counter, lock, cache,
                   output, wk, hist>>

\* main, lines 104-105: one p.join(), which returns once that process has ended
MainJoin ==
    /\ mainpc = "join"
    /\ wk[njoined + 1].pc \in {"exited", "crashed"}
    /\ njoined' = njoined + 1
    /\ mainpc' = IF njoined + 1 < threads THEN "join" ELSE "done"
    /\ UNCHANGED <<argVars, fileVars, nstarted, nstops, q, total_frames, counter, lock, cache,
                   output, wk, hist>>


\* ----------------------------------------------------------------- worker
\* worker, lines 27-28: the process builds its own client; an exception here is
\* outside the try and ends the process
\* a mutant of RegistryWritesOfInit: the constructor saves the registry it loaded
RegistryWritesOfInitSaves(w, log) == log \cup {[by |-> "worker", started |-> nstarted]}

\* __init__, line 24: the registry file is loaded, not written
RegistryWritesOfInit(w, log) == log

WorkerInit(w) ==
    /\ wk[w].pc = "init"
    /\ wk' = [wk EXCEPT ![w].pc = IF ClientInit(wk[w].cache_dir) = "ok"
                                  THEN "get" ELSE "crashed"]
    /\ hist' = [hist EXCEPT !.registry_writes = RegistryWritesOfInit(w, @)]
    /\ UNCHANGED <<argVars, fileVars, mainVars, q, total_frames, counter, lock, cache, output>>

\* a mutant of IsStopMarker: the first item of the work list is taken for a stop
\* marker too
IsStopMarkerFalsy(item) == item <= 1

\* worker, line 32: item is None
IsStopMarker(item) == item = 0

\* the locals of a process entering get_or_run(image_path, prompt, max_retries)
EnterCall(p, item, frame_num, prompt, max_retries) ==
    [p EXCEPT !.pc = "lookup", !.item = item, !.frame_num = frame_num,
              !.input_path = InputPath(InputDir, frame_num), !.prompt = prompt,
              !.max_retries = max_retries, !.attempt = 0, !.requests = 0,
              !.sleeps = 0, !.hit = FALSE, !.last_exception = None,
              !.output_image_data = NoData, !.result = NoData, !.raised = None,
              !.read_from = NoData, !.tmp = 0, !.last_cause = None, !.answered = 0]

\* worker, lines 31-38: q.get(); a stop marker ends the loop, an item is unpacked
\* and get_or_run is entered with its default max_retries
WorkerGet(w) ==
    /\ wk[w].pc = "get"
    /\ q # <<>>
    /\ q' = Tail(q)
    /\ LET item == Head(q) IN
         IF IsStopMarker(item)
         THEN /\ wk' = [wk EXCEPT ![w].pc = "exited"]
              /\ hist' = [hist EXCEPT !.markers[w] = @ + 1]
         ELSE /\ wk' = [wk EXCEPT ![w] = EnterCall(@, item, frame_queue[item][1],
                                                   frame_queue[item][2], DefaultMaxRetries)]
              /\ hist' = [hist EXCEPT !.attempted[item] = @ + 1]
    /\ UNCHANGED <<argVars, fileVars, mainVars, total_frames, counter, lock, cache, output>>

\* ------------------------------------------------------------- get_or_run
\* get_or_run, line 77: cache_enabled = self.cache_dir is not None
CacheEnabled(p) == p.cache_dir # None

\* _cache_path: the entry's name inside the cache directory
CachePath(p) == cache_key(p.input_path, p.prompt)

\* os.path.exists(cache_path)
Exists(dir, name) == name \in DOMAIN dir

\* open(name, "wb"): the file exists and is empty from here on
Truncate(dir, name) == [n \in DOMAIN dir \cup {name} |-> IF n = name THEN Partial ELSE dir[n]]

\* f.write(data) and the close of the with block
WriteAll(dir, name, data) == [n \in DOMAIN dir \cup {name} |-> IF n = name THEN data ELSE dir[n]]

\* a mutant of ExceptPc: the exception is not caught and ends the worker
ExceptPcDies == "exited"

\* worker, lines 59-60: the except branch prints and the loop goes on
ExceptPc == "get"

\* the process after get_or_run raised e: a worker's except branch drops the item,
\* a direct caller sees the exception
AfterRaise(p, e) ==
    IF p.caller = "worker"
    THEN [pc |-> ExceptPc, caller |-> p.caller, cache_dir |-> p.cache_dir,
          calls |-> p.calls, prev |-> p.prev] @@ NoCall
    ELSE [p EXCEPT !.pc = "raised", !.raised = e]

\* the process after get_or_run returned data: a worker goes on to write the output
\* frame (line 41), a direct caller holds the result
AfterReturn(p, data) ==
    IF p.caller = "worker"
    THEN [[pc |-> "write_out", caller |-> p.caller, cache_dir |-> p.cache_dir,
           calls |-> p.calls, prev |-> p.prev] @@ NoCall
            EXCEPT !.item = p.item, !.frame_num = p.frame_num,
                   !.input_path = p.input_path, !.prompt = p.prompt, !.result = data]
    ELSE [p EXCEPT !.pc = "returned", !.result = data]

\* the history of what get_or_run returned to direct callers, per (frame, prompt)
LogReturn(h, p, data) ==
    IF p.caller = "direct"
    THEN [h EXCEPT !.returned = @ \cup {<<<<p.frame_num, p.prompt>>, data>>}]
    ELSE h

\* the history after an item ended in failure
ItemFailed(h, p) ==
    IF p.caller = "worker" THEN [h EXCEPT !.outcome[p.item] = "failed"] ELSE h

\* a mutant of NextException: only the first failure's cause is kept
FirstException(old, e) == IF old = None THEN e ELSE old

\* get_or_run, line 99: last_exception = e
NextException(old, e) == e

\* a mutant of HasAttemptsLeft: one attempt too many
HasAttemptsLeftOffByOne(attempt, max_retries) == attempt <= max_retries

\* get_or_run, line 100: attempt < max_retries
HasAttemptsLeft(attempt, max_retries) == attempt < max_retries

\* get_or_run, lines 98-104, after attempt p.attempt raised e: sleep and go round
\* again, or leave the loop and raise last_exception
AfterFailure(p, e) ==
    IF HasAttemptsLeft(p.attempt, p.max_retries)
    THEN [p EXCEPT !.last_exception = NextException(@, e), !.sleeps = @ + 1,
                   !.attempt = @ + 1, !.pc = "request", !.output_image_data = NoData]
    ELSE AfterRaise([p EXCEPT !.last_exception = NextException(@, e),
                              !.output_image_data = NoData],
                    NextException(p.last_exception, e))

Raises(p, e) == ~HasAttemptsLeft(p.attempt, p.max_retries)

\* a mutant of CacheHit: the cache is never consulted
CacheHitNever(p) == FALSE

\* get_or_run, line 79: cache_enabled and os.path.exists(cache_path)
CacheHit(p) == CacheEnabled(p) /\ Exists(cache, CachePath(p))

\* get_or_run, lines 77-87: the cache lookup; on a miss the input image is read
\* (outside the retry loop: an unreadable input raises at once) and the loop is
\* entered; with max_retries < 1 the loop body never runs and `raise None` is a
\* TypeError
GetOrRunLookup(w) ==
    /\ wk[w].pc = "lookup"
    /\ LET p == wk[w] IN
         IF CacheHit(p)
         THEN /\ wk' = [wk EXCEPT ![w].pc = "read", ![w].hit = TRUE]
              /\ hist' = hist
         ELSE \E readable \in BOOLEAN :
                IF ~readable
                THEN /\ wk' = [wk EXCEPT ![w] = AfterRaise(p, "OSError")]
                     /\ hist' = ItemFailed(hist, p)
                ELSE IF p.max_retries < 1
                THEN /\ wk' = [wk EXCEPT ![w] = AfterRaise(p, "TypeError")]
                     /\ hist' = ItemFailed(hist, p)
                ELSE /\ wk' = [wk EXCEPT ![w].pc = "request", ![w].attempt = 1]
                     /\ hist' = hist
    /\ UNCHANGED <<argVars, fileVars, mainVars, q, total_frames, counter, lock, cache, output>>

\* get_or_run, lines 80-81: the entry is read and returned
GetOrRunRead(w) ==
    /\ wk[w].pc = "read"
    /\ LET p == wk[w] IN
         /\ wk' = [wk EXCEPT ![w] = AfterReturn([p EXCEPT !.read_from = cache[CachePath(p)]],
                                                cache[CachePath(p)])]
         /\ hist' = LogReturn(hist, p, cache[CachePath(p)])
    /\ UNCHANGED <<argVars, fileVars, mainVars, q, total_frames, counter, lock, cache, output>>

\* the decoded images the endpoint may answer a request of p with: the image is a
\* function of the request, up to the variants unseeded inference produces (one
\* variant in the dispatcher, two for a direct caller)
Payloads(p) ==
    {<<p.frame_num, p.prompt, v>> : v \in IF p.caller = "direct" THEN {"v1", "v2"} ELSE {"v1"}}

\* what a failed remote attempt raises: a transport error, or raise_for_status (a
\* malformed response, a KeyError, takes the same path); a worker only prints it,
\* so one kind stands for all in the dispatcher
RemoteErrors(p) ==
    IF p.caller = "direct" THEN {"ConnectionError", "HTTPError"} ELSE {"ConnectionError"}

\* the history of remote requests, kept per (frame, prompt) for direct callers
LogRemote(h, p) ==
    IF p.caller = "direct" THEN [h EXCEPT !.remote[<<p.frame_num, p.prompt>>] = @ + 1] ELSE h

\* the call after the endpoint answered an attempt with an image (lines 90-93 ran
\* without raising): a direct caller's count of answered attempts goes up
Answered(p) == IF p.caller = "direct" THEN [p EXCEPT !.answered = @ + 1] ELSE p

\* get_or_run, lines 88-104: one remote attempt. It raises (transport, status or
\* malformed response), or answers with an image; then, with the cache enabled,
\* the entry is opened for writing.
GetOrRunRequest(w) ==
    /\ wk[w].pc = "request"
    /\ LET p == [wk[w] EXCEPT !.requests = @ + 1]
           failed(e) == [p EXCEPT !.last_cause = e]
           logged == LogRemote(hist, p) IN
         \E answered \in BOOLEAN, outcome \in RemoteErrors(p), image \in Payloads(p) :
           IF ~answered
           THEN /\ wk' = [wk EXCEPT ![w] = AfterFailure(failed(outcome), outcome)]
                /\ hist' = IF Raises(p, outcome) THEN ItemFailed(logged, p) ELSE logged
                /\ cache' = cache
           ELSE /\ hist' = IF CacheEnabled(p) THEN logged ELSE LogReturn(logged, p, image)
                /\ IF CacheEnabled(p)
                   THEN /\ cache' = Truncate(cache, CachePath(p))
                        /\ wk' = [wk EXCEPT ![w] = [Answered(p) EXCEPT
                                                       !.pc = "cache_write",
                                                       !.output_image_data = image]]
                   ELSE /\ cache' = cache
                        /\ wk' = [wk EXCEPT ![w] = AfterReturn(Answered(p), image)]
    /\ UNCHANGED <<argVars, fileVars, mainVars, q, total_frames, counter, lock, output>>

\* get_or_run, lines 94-97: f.write(output_image_data) into the opened entry. The
\* write is inside the try: when it raises (disk full, I/O error) the entry stays
\* as open() left it and the failure is handled like a failed attempt.
GetOrRunCacheWrite(w) ==
    /\ wk[w].pc = "cache_write"
    /\ LET p == wk[w] IN
         \E ok \in BOOLEAN :
           IF ok
           THEN /\ cache' = WriteAll(cache, CachePath(p), p.output_image_data)
                /\ wk' = [wk EXCEPT ![w] = AfterReturn(p, p.output_image_data)]
                /\ hist' = LogReturn(hist, p, p.output_image_data)
           ELSE /\ cache' = cache
                /\ wk' = [wk EXCEPT ![w] = AfterFailure([p EXCEPT !.last_cause = "OSError"],
                                                        "OSError")]
                /\ hist' = IF Raises(p, "OSError") THEN ItemFailed(hist, p) ELSE hist
    /\ UNCHANGED <<argVars, fileVars, mainVars, q, total_frames, counter, lock, output>>


\* ------------------------------------------------- worker: output, progress
\* worker, line 48: (total_written / total_frames) * 100, kept as a fraction
PercentComplete(total_written, total) ==
    IF total > 0 THEN [num |-> total_written * 100, den |-> total]
    ELSE [num |-> 0, den |-> 1]

\* worker, lines 41-42: the output frame is opened and written; when the write
\* raises, the except branch drops the item
WorkerWriteOutput(w) ==
    /\ wk[w].pc = "write_out"
    /\ LET p == wk[w] IN
         \E ok \in BOOLEAN :
           IF ok
           THEN /\ output' = WriteAll(output, p.frame_num, p.result)
                /\ wk' = [wk EXCEPT ![w].pc = "lock"]
                /\ hist' = [hist EXCEPT !.outcome[p.item] = "ok"]
           ELSE /\ output' = Truncate(output, p.frame_num)
                /\ wk' = [wk EXCEPT ![w] = AfterRaise(p, "OSError")]
                /\ hist' = ItemFailed(hist, p)
    /\ UNCHANGED <<argVars, fileVars, mainVars, q, total_frames, counter, lock, cache>>

\* a mutant of LockFree: the increment is not guarded by the lock
LockFreeAlways == TRUE

\* counter.get_lock() can be taken
LockFree == lock = 0

\* worker, lines 43-44: with counter.get_lock(), and the first half of
\* counter.value += 1: the value is read
WorkerLock(w) ==
    /\ wk[w].pc = "lock"
    /\ LockFree
    /\ lock' = w
    /\ wk' = [wk EXCEPT ![w].tmp = counter, ![w].pc = "store"]
    /\ UNCHANGED <<argVars, fileVars, mainVars, q, total_frames, counter, cache, output, hist>>

\* worker, lines 44-58: the incremented value is stored and read back as
\* total_written, the lock is released, and the progress line is printed
WorkerStore(w) ==
    /\ wk[w].pc = "store"
    /\ LET p == wk[w] IN
         /\ counter' = p.tmp + 1
         /\ lock' = 0
         /\ hist' = [hist EXCEPT
                       !.reports = @ \cup {[item |-> p.item, nth |-> Cardinality(@) + 1,
                                            total_written |-> p.tmp + 1,
                                            percent |-> PercentComplete(p.tmp + 1, total_frames)]}]
         /\ wk' = [wk EXCEPT ![w] = [pc |-> "get", caller |-> p.caller,
                                     cache_dir |-> p.cache_dir, calls |-> p.calls,
                                     prev |-> p.prev] @@ NoCall]
    /\ UNCHANGED <<argVars, fileVars, mainVars, q, total_frames, cache, output>>

\* ---------------------------------------------------------- direct callers
\* the (frame, prompt) pairs and max_retries values a direct caller passes
DirectItems == {0} \X Prompts

\* what the call that just ended leaves for the caller to compare the next with
Summary(p) ==
    IF p.pc \in {"returned", "raised"}
    THEN [key |-> <<p.frame_num, p.prompt>>, outcome |-> p.pc, result |-> p.result,
          requests |-> p.requests]
    ELSE NoPrev

\* a caller of client.get_or_run(image_path, prompt, max_retries), as
\* batch_scene_img2img.main (line 43) calls it in sequence
DirectCall(w) ==
    /\ mode = "direct"
    /\ wk[w].pc \in {"ready", "returned", "raised"}
    /\ wk[w].calls < MaxCalls
    /\ \E it \in DirectItems, max_retries \in 0..MaxRetriesArg :
         wk' = [wk EXCEPT ![w] = EnterCall([@ EXCEPT !.calls = @ + 1, !.prev = Summary(wk[w])],
                                           0, it[1], it[2], max_retries)]
    /\ UNCHANGED <<argVars, fileVars, mainVars, q, total_frames, counter, lock, cache, output, hist>>

InitDirect ==
    /\ mode = "direct"
    /\ keycalc = NoKeyCalc
    /\ env = EnvSet
    /\ dirs = {CacheDir}
    /\ registry = NoRegistry
    /\ maint = NoMaint
    /\ pcl = NoClient
    /\ InitTools
    /\ no_cache = FALSE
    /\ threads = 1
    /\ frame_queue = <<>>
    /\ mainpc = "none"
    /\ nstarted = 0 /\ nstops = 0 /\ njoined = 0
    /\ q = <<>>
    /\ total_frames = 0
    /\ counter = 0
    /\ lock = 0
    /\ cache = [k \in {} |-> NoData]
    /\ output = [k \in {} |-> NoData]
    /\ wk = [w \in Procs |-> IF w <= threads
                             THEN [IdleProc("direct") EXCEPT !.pc = "ready",
                                                             !.cache_dir = CacheDir]
                             ELSE IdleProc("direct")]
    /\ hist = NoHistory

\* ---------------------------------------------------------- specifications
GetOrRun(w) ==
    \/ GetOrRunLookup(w)
    \/ GetOrRunRead(w)
    \/ GetOrRunRequest(w)
    \/ GetOrRunCacheWrite(w)

Worker(w) ==
    \/ WorkerInit(w)
    \/ WorkerGet(w)
    \/ WorkerWriteOutput(w)
    \/ WorkerLock(w)
    \/ WorkerStore(w)

Main == ImportModules \/ MainClient \/ MainEnqueue \/ MainStart \/ MainPutStop \/ MainJoin

Next == Main \/ \E w \in Procs : Worker(w) \/ GetOrRun(w)

\* the dispatcher in normal operation: no process is killed
Spec == Init /\ [][Next]_vars

NextDirect == \E w \in Procs : DirectCall(w) \/ GetOrRun(w)

\* a sequential caller of get_or_run on a cache that starts empty
DirectSpec == InitDirect /\ [][NextDirect]_vars


\* the process is killed while it is inside get_or_run; its files stay as they are
ProcessKilled(w) ==
    /\ wk[w].caller = "direct"
    /\ wk[w].pc \in {"lookup", "read", "request", "cache_write"}
    /\ wk' = [wk EXCEPT ![w].pc = "crashed"]
    /\ UNCHANGED <<argVars, fileVars, mainVars, q, total_frames, counter, lock, cache, output, hist>>

\* the program is run again after a crash: a new process on the same cache directory
Rerun(w) ==
    /\ wk[w].pc = "crashed"
    /\ wk' = [wk EXCEPT ![w] = [pc |-> "ready", caller |-> "direct", cache_dir |-> CacheDir,
                                 calls |-> wk[w].calls, prev |-> NoPrev] @@ NoCall]
    /\ UNCHANGED <<argVars, fileVars, mainVars, q, total_frames, counter, lock, cache, output, hist>>

NextCrash == NextDirect \/ \E w \in Procs : ProcessKilled(w) \/ Rerun(w)

\* a sequential caller of get_or_run whose process may be killed and run again
CrashSpec == InitDirect /\ [][NextCrash]_vars

\* ------------------------------------------------------- cache maintenance
MaxClears == 1

\* clear_cache_except, line 119: the keys of the prompts to keep
KeysToKeep(prompts_to_keep) == {generate_cache_key(pr) : pr \in prompts_to_keep}

\* clear_cache_except, lines 128-134: the file is one the loop removes
Removes(filename, keys_to_keep) ==
    PartCount(filename) >= 3 /\ LastPart(filename) \notin keys_to_keep

\* clear_cache_except, lines 122-139, on the entries of the cache directory
ClearedCache(dir, keys_to_keep, dry_run) ==
    [n \in {x \in DOMAIN dir : dry_run \/ ~Removes(x, keys_to_keep)} |-> dir[n]]

\* clear_cache_except, lines 122-139, on the registry file, which is listed with
\* the entries
ClearedRegistry(reg, keys_to_keep, dry_run) ==
    IF reg.exists /\ ~dry_run /\ Removes(RegistryName, keys_to_keep) THEN NoRegistry ELSE reg

\* client.clear_cache_except(prompts_to_keep, dry_run), called between get_or_run
\* calls; without a cache directory it returns at once (lines 114-116)
ClearCacheExcept(w) ==
    /\ mode = "direct"
    /\ wk[w].pc \in {"ready", "returned", "raised"}
    /\ maint.calls < MaxClears
    /\ \E prompts_to_keep \in SUBSET Prompts, dry_run \in BOOLEAN :
         LET keys_to_keep == KeysToKeep(prompts_to_keep)
             cleared == IF CacheEnabled(wk[w])
                        THEN ClearedCache(cache, keys_to_keep, dry_run) ELSE cache IN
           /\ cache' = cleared
           /\ registry' = IF CacheEnabled(wk[w])
                          THEN ClearedRegistry(registry, keys_to_keep, dry_run) ELSE registry
           /\ maint' = [calls |-> maint.calls + 1, prompts_to_keep |-> prompts_to_keep,
                        dry_run |-> dry_run, before |-> cache, after |-> cleared]
    /\ UNCHANGED <<mode, no_cache, threads, frame_queue, keycalc, env, pcl, toolVars, dirs, mainVars, q,
                   total_frames, counter, lock, output, wk, hist>>

NextMaint == NextDirect \/ \E w \in Procs : ClearCacheExcept(w)

\* a sequential caller of get_or_run that also clears the cache
MaintSpec == InitDirect /\ [][NextMaint]_vars

\* ------------------------------------------------------------- cache keys
\* the largest of the small frame numbers whose keys are computed
MaxKeyFrame == 12
\* frame numbers of five and of six digits
WideFrames == {99999, 100000}
KeyFrames == (0..MaxKeyFrame) \cup WideFrames
KeyPrompts == Prompts \cup {""}
\* the input directories of the first and of the second computation
KeyDirs == <<InputDir, <<"f", "r", "a", "m", "e", "_", "7">> >>

InitKey ==
    /\ mode = "key"
    /\ keycalc \in {[NoKeyCalc EXCEPT !.frame = f, !.prompt = pr] :
                       f \in KeyFrames, pr \in KeyPrompts}
    /\ env = EnvSet
    /\ dirs = {}
    /\ registry = NoRegistry
    /\ maint = NoMaint
    /\ pcl = NoClient
    /\ InitTools
    /\ no_cache = FALSE
    /\ threads = 1
    /\ frame_queue = <<>>
    /\ mainpc = "none"
    /\ nstarted = 0 /\ nstops = 0 /\ njoined = 0
    /\ q = <<>>
    /\ total_frames = 0
    /\ counter = 0
    /\ lock = 0
    /\ cache = [k \in {} |-> NoData]
    /\ output = [k \in {} |-> NoData]
    /\ wk = [w \in Procs |-> IdleProc("direct")]
    /\ hist = NoHistory

\* the key of the work item (frame, prompt) is computed both ways: by _cache_key
\* from the item's input path, and by get_cache_key from its frame number
ComputeKeys ==
    /\ mode = "key"
    /\ keycalc.calls < Len(KeyDirs)
    /\ keycalc' =
         [keycalc EXCEPT
            !.calls = @ + 1,
            !.via_path = cache_key(InputPath(KeyDirs[keycalc.calls + 1], keycalc.frame),
                                   keycalc.prompt),
            !.via_number = get_cache_key(keycalc.frame, keycalc.prompt),
            !.first = IF keycalc.calls = 0
                      THEN cache_key(InputPath(KeyDirs[1], keycalc.frame), keycalc.prompt)
                      ELSE @]
    /\ UNCHANGED <<mode, no_cache, threads, frame_queue, env, maint, pcl, toolVars, fileVars, mainVars, q,
                   total_frames, counter, lock, cache, output, wk, hist>>

KeySpec == InitKey /\ [][ComputeKeys]_vars

\* the dispatcher with every process scheduled: main and each started worker keep
\* taking steps while they can (every remote call returns or raises)
FairSpec ==
    /\ Spec
    /\ WF_vars(Main)
    /\ \A w \in Procs : WF_vars(Worker(w) \/ GetOrRun(w))

\* ------------------------------------------------------- parallel_client
MaxClientThreads == 2
MaxClientFrames == 3
Threads == 1..MaxClientThreads
\* the frame numbers of the selected scene's range can be 1..n, n <= MaxClientFrames
ClientFrames == 1..MaxClientFrames

\* the names that import statements inside main bind: they are local to main, and
\* unbound until their import statement has run (lines 140, 161, 211-213)
LocalImports == {"tqdm", "cv2", "Image"}

\* the locals of a thread that has not been started
NoThread == [pc |-> "unstarted", frame_number |-> 0, updates |-> 0, dones |-> 0]

\* the other programs' variables while parallel_client runs
InitIdle ==
    /\ keycalc = NoKeyCalc
    /\ env = EnvSet
    /\ dirs = {}
    /\ registry = NoRegistry
    /\ maint = NoMaint
    /\ no_cache = FALSE
    /\ threads = 1
    /\ frame_queue = <<>>
    /\ mainpc = "none"
    /\ nstarted = 0 /\ nstops = 0 /\ njoined = 0
    /\ q = <<>>
    /\ total_frames = 0
    /\ counter = 0
    /\ lock = 0
    /\ cache = [k \in {} |-> NoData]
    /\ output = [k \in {} |-> NoData]
    /\ wk = [w \in Procs |-> IdleProc("direct")]
    /\ hist = NoHistory

idleVars == <<mode, no_cache, threads, frame_queue, keycalc, env, maint, toolVars, fileVars, mainVars,
              q, total_frames, counter, lock, cache, output, wk, hist>>

\* the orders of a list of frames: all of them after random.shuffle, else its own
RECURSIVE Ascending(_)
Ascending(S) ==
    IF S = {} THEN <<>>
    ELSE LET m == CHOOSE x \in S : \A y \in S : x <= y IN <<m>> \o Ascending(S \ {m})

Orders(S, shuffle) ==
    IF shuffle
    THEN {l \in [1..Cardinality(S) -> S] : \A i, j \in 1..Cardinality(S) : i # j => l[i] # l[j]}
    ELSE {Ascending(S)}

\* main, lines 158-171: the frames whose output file exists are left out unless
\* --overwrite is set
FramesToProcess(overwrite, frames, out) ==
    IF ~overwrite THEN {f \in frames : f \notin DOMAIN out} ELSE frames

\* the state of main at its first line, for given arguments and files: overwrite,
\* shuffle and threads are arguments; last_scene tells whether the selected scene
\* is the last row of scenes.csv; nframes is the length of its frame range;
\* existing are the frames with an output file for the prompt, readable the
\* frames cap.read() can deliver
ClientStart(overwrite, shuffle, last_scene, nthreads, nframes, existing, readable) ==
    [pc |-> "begin", overwrite |-> overwrite, shuffle |-> shuffle, last_scene |-> last_scene,
     threads |-> nthreads, nframes |-> nframes, readable |-> readable,
     bound |-> {}, frames_to_process |-> <<>>, next |-> 1,
     q |-> <<>>, unfinished_tasks |-> 0, pbar |-> [n |-> 0, total |-> 0],
     nstarted |-> 0, nstops |-> 0, njoined |-> 0,
     th |-> [t \in Threads |-> NoThread],
     out |-> [f \in existing |-> "old"],
     requests |-> [f \in ClientFrames |-> 0],
     nput |-> 0, ndequeued |-> 0, ndone |-> 0, raised_at |-> 0]

ClientInputs ==
    {ClientStart(o, s, l, t, n, e, r) :
        o \in BOOLEAN, s \in BOOLEAN, l \in BOOLEAN, t \in Threads,
        n \in 0..MaxClientFrames, e \in SUBSET ClientFrames, r \in SUBSET ClientFrames}

InitClient ==
    /\ mode = "client"
    /\ pcl \in {c \in ClientInputs : c.readable \subseteq 1..c.nframes
                                     /\ DOMAIN c.out \subseteq 1..c.nframes}
    /\ InitIdle /\ InitTools

\* main has ended: it returned, or an exception left it; the threads are daemon
\* threads and end with it
ClientEnded(c) == c.pc \in {"done", "raised"}

\* main after an exception at the given line
ClientRaised(c, line) == [c EXCEPT !.pc = "raised", !.raised_at = line]

\* main, lines 119-179: the scene's range and prompt are read (the import of cv2 at
\* line 140 runs only for the last scene), the frames to process are chosen (the
\* import of tqdm at line 161 runs only without --overwrite); with none main
\* returns, else they are shuffled on request
ClientScan ==
    /\ mode \in {"client"} /\ pcl.pc = "begin"
    /\ LET c == pcl
           bound == (IF c.last_scene THEN {"cv2"} ELSE {})
                      \cup (IF ~c.overwrite THEN {"tqdm"} ELSE {})
           chosen == FramesToProcess(c.overwrite, 1..c.nframes, c.out) IN
         IF chosen = {}
         THEN pcl' = [c EXCEPT !.pc = "done", !.bound = bound]
         ELSE \E order \in Orders(chosen, c.shuffle) :
                pcl' = [c EXCEPT !.pc = "setup", !.bound = bound, !.frames_to_process = order]
    /\ UNCHANGED idleVars

\* main, lines 182-184: the queue and the progress bar; tqdm is a local of main
\* that is bound only when line 161 has run
ClientSetup ==
    /\ pcl.pc = "setup"
    /\ pcl' = IF "tqdm" \in pcl.bound
              THEN [pcl EXCEPT !.pc = "start", !.pbar.total = Len(pcl.frames_to_process)]
              ELSE ClientRaised(pcl, 183)
    /\ UNCHANGED idleVars

\* main, lines 185-188: one thread is started
ClientStartThread ==
    /\ pcl.pc = "start"
    /\ pcl' = [pcl EXCEPT !.th[pcl.nstarted + 1].pc = "get",
                          !.nstarted = @ + 1,
                          !.pc = IF pcl.nstarted + 1 < pcl.threads THEN "start" ELSE "open"]
    /\ UNCHANGED idleVars

\* main, line 190: cv2 is a local of main that is bound only when line 140 has run
ClientOpenVideo ==
    /\ pcl.pc = "open"
    /\ pcl' = IF "cv2" \in pcl.bound THEN [pcl EXCEPT !.pc = "frames"]
              ELSE ClientRaised(pcl, 190)
    /\ UNCHANGED idleVars

\* Queue(maxsize=args.threads * 2)
QueueSize(c) == c.threads * 2

\* q.put(item) once there is room: the item is queued and counted as unfinished
QueuePut(c, item) == [c EXCEPT !.q = Append(@, item), !.unfinished_tasks = @ + 1]

\* main, lines 191-201: one round of the loop. A frame that cannot be read is
\* skipped and taken off the bar's total; for a frame that was read, Image is a
\* local of main bound only by line 213; the put waits while the queue is full
ClientFrame ==
    /\ pcl.pc = "frames"
    /\ LET c == pcl
           frame_num == c.frames_to_process[c.next]
           after(d) == [d EXCEPT !.next = @ + 1,
                                 !.pc = IF c.next + 1 > Len(c.frames_to_process)
                                        THEN "join_queue" ELSE "frames"] IN
         IF frame_num \notin c.readable
         THEN pcl' = after([c EXCEPT !.pbar.total = @ - 1])
         ELSE IF "Image" \notin c.bound
         THEN pcl' = ClientRaised(c, 200)
         ELSE /\ Len(c.q) < QueueSize(c)
              /\ pcl' = after([QueuePut(c, frame_num) EXCEPT !.nput = @ + 1])
    /\ UNCHANGED idleVars

\* main, line 203: q.join() returns when unfinished_tasks is zero
ClientJoinQueue ==
    /\ pcl.pc = "join_queue"
    /\ pcl.unfinished_tasks = 0
    /\ pcl' = [pcl EXCEPT !.pc = "stop"]
    /\ UNCHANGED idleVars

\* main, lines 204-205: one q.put((None, None)), which waits while the queue is full
ClientPutStop ==
    /\ pcl.pc = "stop"
    /\ Len(pcl.q) < QueueSize(pcl)
    /\ pcl' = [QueuePut(pcl, 0) EXCEPT
                 !.nstops = @ + 1,
                 !.pc = IF pcl.nstops + 1 < pcl.threads THEN "stop" ELSE "join_threads"]
    /\ UNCHANGED idleVars

\* main, lines 206-214: one thread.join(), which returns once that thread has
\* ended; after the last one main returns
ClientJoinThread ==
    /\ pcl.pc = "join_threads"
    /\ pcl.th[pcl.njoined + 1].pc \in {"exited", "died"}
    /\ pcl' = [pcl EXCEPT !.njoined = @ + 1,
                          !.pc = IF pcl.njoined + 1 < pcl.threads THEN "join_threads"
                                 ELSE "done"]
    /\ UNCHANGED idleVars

\* Queue.task_done(): ValueError when no task is unfinished, else one less
TaskDone(c, t) ==
    IF c.unfinished_tasks - 1 < 0
    THEN [raised |-> TRUE,
          c |-> [c EXCEPT !.th[t].dones = @ + 1, !.ndone = @ + 1]]
    ELSE [raised |-> FALSE,
          c |-> [c EXCEPT !.unfinished_tasks = @ - 1, !.th[t].dones = @ + 1,
                          !.ndone = @ + 1]]

\* pbar.update(1)
PbarUpdate(c, t) == [c EXCEPT !.pbar.n = @ + 1, !.th[t].updates = @ + 1]

\* frame_processor_worker, lines 56-58: q.get(); (None, None) ends the loop
ThreadGet(t) ==
    /\ ~ClientEnded(pcl)
    /\ pcl.th[t].pc = "get"
    /\ pcl.q # <<>>
    /\ LET frame_number == Head(pcl.q)
           c == [pcl EXCEPT !.q = Tail(@)] IN
         pcl' = IF frame_number = 0
                THEN [c EXCEPT !.th[t].pc = "exited"]
                ELSE [c EXCEPT !.th[t] = [pc |-> "check", frame_number |-> frame_number,
                                          updates |-> 0, dones |-> 0],
                               !.ndequeued = @ + 1]
    /\ UNCHANGED idleVars

\* frame_processor_worker, lines 60-73: when the output file exists no request is
\* made: pbar.update(1) and q.task_done() are called, and `continue` leaves the
\* try through its finally clause. A ValueError of task_done is caught at line 92
\* and the finally clause runs as well.
ThreadCheck(t) ==
    /\ ~ClientEnded(pcl)
    /\ pcl.th[t].pc = "check"
    /\ pcl' = IF pcl.th[t].frame_number \in DOMAIN pcl.out
              THEN [TaskDone(PbarUpdate(pcl, t), t).c EXCEPT !.th[t].pc = "finally"]
              ELSE [pcl EXCEPT !.th[t].pc = "request"]
    /\ UNCHANGED idleVars

\* frame_processor_worker, lines 75-83: the request; it raises, or answers with an
\* image
ThreadRequest(t) ==
    /\ ~ClientEnded(pcl)
    /\ pcl.th[t].pc = "request"
    /\ \E answered \in BOOLEAN :
         pcl' = [pcl EXCEPT !.requests[pcl.th[t].frame_number] = @ + 1,
                            !.th[t].pc = IF answered THEN "write" ELSE "finally"]
    /\ UNCHANGED idleVars

\* frame_processor_worker, lines 84-85: the output file is opened and written
ThreadWrite(t) ==
    /\ ~ClientEnded(pcl)
    /\ pcl.th[t].pc = "write"
    /\ \E ok \in BOOLEAN :
         LET f == pcl.th[t].frame_number
             data == IF ok THEN "new" ELSE "partial" IN
           pcl' = [pcl EXCEPT !.th[t].pc = "finally",
                              !.out = [n \in DOMAIN pcl.out \cup {f} |->
                                         IF n = f THEN data ELSE pcl.out[n]]]
    /\ UNCHANGED idleVars

\* frame_processor_worker, lines 94-96: pbar.update(1) and q.task_done(); a
\* ValueError here leaves the function and ends the thread
ThreadFinally(t) ==
    /\ ~ClientEnded(pcl)
    /\ pcl.th[t].pc = "finally"
    /\ LET done == TaskDone(PbarUpdate(pcl, t), t) IN
         pcl' = [done.c EXCEPT !.th[t].pc = IF done.raised THEN "died" ELSE "get"]
    /\ UNCHANGED idleVars

ClientMain ==
    \/ ClientScan
    \/ ClientSetup
    \/ ClientStartThread
    \/ ClientOpenVideo
    \/ ClientFrame
    \/ ClientJoinQueue
    \/ ClientPutStop
    \/ ClientJoinThread

\* no path of main puts a frame on the queue, so a thread only ever dequeues a
\* stop marker
NextClient == ClientMain \/ \E t \in Threads : ThreadGet(t)

\* parallel_client.main as it is written
ClientSpec == InitClient /\ [][NextClient]_vars

\* main and its threads keep taking steps while they can
FairClientSpec ==
    /\ ClientSpec
    /\ WF_vars(ClientMain)
    /\ \A t \in Threads : WF_vars(ThreadGet(t))

\* a caller of frame_processor_worker in whose scope tqdm, cv2 and Image are
\* bound: it has made the queue and the bar and started the threads as lines
\* 182-190 do, and goes on as lines 191-207 do
ThreadsStart(c) ==
    LET chosen == FramesToProcess(c.overwrite, 1..c.nframes, c.out) IN
      [c EXCEPT !.pc = "frames", !.bound = LocalImports,
                !.frames_to_process = Ascending(chosen),
                !.pbar.total = Cardinality(chosen),
                !.nstarted = c.threads,
                !.th = [t \in Threads |-> IF t <= c.threads
                                          THEN [NoThread EXCEPT !.pc = "get"] ELSE NoThread]]

InitThreads ==
    /\ mode = "threads"
    /\ pcl \in {ThreadsStart(c) :
                  c \in {d \in ClientInputs :
                           /\ d.readable \subseteq 1..d.nframes
                           /\ DOMAIN d.out \subseteq 1..d.nframes
                           /\ ~d.shuffle /\ d.last_scene
                           /\ FramesToProcess(d.overwrite, 1..d.nframes, d.out) # {}}}
    /\ InitIdle /\ InitTools

Thread(t) ==
    \/ ThreadGet(t)
    \/ ThreadCheck(t)
    \/ ThreadRequest(t)
    \/ ThreadWrite(t)
    \/ ThreadFinally(t)

NextThreads ==
    \/ ClientFrame
    \/ ClientJoinQueue
    \/ ClientPutStop
    \/ ClientJoinThread
    \/ \E t \in Threads : Thread(t)

\* frame_processor_worker threads fed by such a caller
ThreadSpec == InitThreads /\ [][NextThreads]_vars

\* ----------------------------------------------------------------- claims
Items == 1..Len(frame_queue)
Workers == 1..threads
Succeeded == {i \in Items : hist.outcome[i] = "ok"}
Failed == {i \in Items : hist.outcome[i] = "failed"}
Range(f) == {f[x] : x \in DOMAIN f}

\* C1: when main has returned, every enqueued item has been dequeued and handed to
\* get_or_run exactly once (and never more than once at any time), every worker has
\* dequeued exactly one stop marker, and the queue is empty.
DispatchComplete ==
    /\ \A i \in Items : hist.attempted[i] <= 1
    /\ \A w \in Procs : hist.markers[w] <= 1
    /\ mainpc = "done" =>
         /\ \A i \in Items : hist.attempted[i] = 1 /\ hist.outcome[i] \in {"ok", "failed"}
         /\ \A w \in Workers : hist.markers[w] = 1 /\ wk[w].pc = "exited"
         /\ q = <<>>

\* main has returned from a dispatch of a full work list on every worker, with
\* items that succeeded and items that failed
DispatchCompleteWitness ==
    /\ mainpc = "done"
    /\ Len(frame_queue) = MaxItems
    /\ threads = MaxThreads
    /\ Succeeded # {} /\ Failed # {}

\* C2: main eventually returns, and when it has returned no item is queued or
\* being processed: every item is a success or a logged failure.
DispatchTerminates ==
    /\ ConfigOk(env) => <>(mainpc = "done")
    /\ [](mainpc = "done" =>
            /\ Range(q) \cap Items = {}
            /\ \A i \in Items : hist.outcome[i] \in {"ok", "failed"}
            /\ \A w \in Workers : wk[w].pc = "exited")

\* the step in which item i ends in failure
ItemFails(i) == hist.outcome[i] = "none" /\ hist'.outcome[i] = "failed"

\* the step in which an item fails leaves its worker alive at the head of its loop,
\* does not put the item back, and touches no other process, nor main, nor the counter
ErrorConfinedStep ==
    \A i \in Items :
      ItemFails(i) =>
        \E w \in Workers :
          /\ wk[w].item = i
          /\ wk'[w].pc = "get"
          /\ \A v \in Procs \ {w} : wk'[v] = wk[v]
          /\ q' = q /\ i \notin Range(q')
          /\ mainpc' = mainpc /\ counter' = counter /\ lock' = lock

\* C3: an error while processing one item is confined to it: the item is dropped
\* and not re-queued, its worker stays in its loop, main does not raise and is
\* never left unable to go on before it returns, and when it has returned every
\* item has been attempted once.
ErrorConfined ==
    /\ [][ErrorConfinedStep]_vars
    /\ [](Failed # {} => mainpc # "raised")
    /\ [](Failed # {} => (mainpc = "done" \/ ENABLED Next))
    /\ [](Failed # {} /\ mainpc = "done" => \A i \in Items : hist.attempted[i] = 1)

\* an item has failed, another has succeeded after it on the same worker, and main
\* has returned
ErrorConfinedWitness ==
    /\ mainpc = "done"
    /\ threads = 1
    /\ \E i, j \in Items : i < j /\ hist.outcome[i] = "failed" /\ hist.outcome[j] = "ok"

\* C6: with no_cache the client is constructed and the dispatch runs: main does
\* not raise, no lookup is a hit, and no cache file is created.
NoCacheDispatchRuns ==
    no_cache =>
      /\ mainpc # "raised"
      /\ DOMAIN cache = {}
      /\ \A w \in Procs : ~wk[w].hit

\* the successes that have not yet been counted: their worker is between the
\* output write and the counter store
Pending == {w \in Procs : wk[w].pc \in {"lock", "store"}}

\* C8: the counter never decreases and moves by one; it equals the number of items
\* whose output was written, less those whose worker has not stored its increment
\* yet; a failed item is never counted; when main has returned it equals the
\* number of successful items.
CounterCountsSuccesses ==
    /\ [][counter' >= counter /\ counter' <= counter + 1]_vars
    /\ [](counter = Cardinality(Succeeded) - Cardinality(Pending))
    /\ [](mainpc = "done" => counter = Cardinality(Succeeded))
    /\ [][\A i \in Items : ItemFails(i) => counter' = counter]_vars

\* main has returned after two workers counted successes, and an item had failed
CounterWitness ==
    /\ mainpc = "done"
    /\ threads = MaxThreads
    /\ counter >= 2
    /\ Failed # {}

CallKey(p) == <<p.frame_num, p.prompt>>

\* the second of two successive calls for the same (frame, prompt), both returned,
\* on a cache that was empty before the first
SecondOfTwo(p) ==
    /\ p.pc = "returned" /\ p.calls = 2
    /\ p.prev.outcome = "returned" /\ p.prev.key = CallKey(p)

\* a call that finds its entry present issues no remote request and returns the
\* entry's bytes
HitServesEntry(p) ==
    p.hit =>
      /\ p.requests = 0
      /\ p.pc = "returned" => p.result = p.read_from /\ p.result = cache[CachePath(p)]

RetryBound ==
    \A w \in Procs :
      LET p == wk[w] IN
        /\ p.pc = "request" =>
             /\ p.attempt \in 1..p.max_retries
             /\ p.requests = p.attempt - 1 /\ p.sleeps = p.attempt - 1
        /\ p.pc = "cache_write" =>
             /\ p.attempt \in 1..p.max_retries
             /\ p.requests = p.attempt /\ p.sleeps = p.attempt - 1
        /\ p.pc = "raised" /\ p.attempt >= 1 =>
             /\ ~p.hit
             /\ p.attempt = p.max_retries
             /\ p.requests = p.max_retries
             /\ p.sleeps = p.max_retries - 1
             /\ p.raised = p.last_cause /\ p.raised # None

\* a first call on the empty cache raised a remote error after MaxRetriesArg
\* attempts, none of which was answered
RetryBoundWitness ==
    \E w \in Procs :
      /\ wk[w].pc = "raised" /\ wk[w].calls = 1
      /\ wk[w].max_retries = MaxRetriesArg
      /\ wk[w].requests = MaxRetriesArg
      /\ wk[w].raised \in RemoteErrors(wk[w])
      /\ DOMAIN cache = {}

\* C7: after the process is killed during the cache write the entry is absent or
\* complete, and no lookup that finds an entry returns a partial one.
CacheWriteAtomic ==
    \A w \in Procs :
      LET p == wk[w] IN
        /\ p.pc = "crashed" /\ p.output_image_data # NoData =>
             \/ CachePath(p) \notin DOMAIN cache
             \/ cache[CachePath(p)] = p.output_image_data
        /\ p.pc = "returned" /\ p.hit => p.result # Partial

\* C10: the key of the work item of frame f and prompt p is
\* frame_{f:05d}_{h}.png with h the first 8 hex characters of the SHA-256 digest
\* of p, whether _cache_key computes it from the item's input path or
\* get_cache_key from the frame number, and whatever the input directory.
CacheKeyAgrees ==
    keycalc.calls > 0 =>
      /\ keycalc.via_path = keycalc.via_number
      /\ keycalc.via_path = keycalc.first
      /\ keycalc.via_path = FramePrefix \o Format05d(keycalc.frame) \o Underscore
                              \o SubSeq(Sha256Hex(keycalc.prompt), 1, HashLen) \o PngSuffix

\* the key of a six-digit frame has been computed a second time, from another
\* input directory
CacheKeyWitness ==
    /\ keycalc.calls = 2
    /\ keycalc.frame = 100000
    /\ keycalc.prompt = "p"
    /\ Len(keycalc.via_path) = 25


\* the decoded images a remote response to the request behind entry `name` can carry
OutputsFor(name) ==
    {<<it[1], it[2], v>> : it \in {x \in WorkItems : cache_key(InputPath(InputDir, x[1]), x[2]) = name},
                          v \in {"v1", "v2"}}

\* C11: during a dispatch every cache entry holds the decoded output of a
\* successful remote response to its request, and an entry that exists is neither
\* changed nor removed by any step.
CacheEntryImmutable ==
    /\ [](\A k \in DOMAIN cache : cache[k] \in OutputsFor(k))
    /\ [][\A k \in DOMAIN cache : k \in DOMAIN cache' /\ cache'[k] = cache[k]]_vars

\* C12: the registry file is written by main only, and only while no worker
\* process has been started; no step taken after a worker was started changes it.
RegistryWrittenBeforeWorkers ==
    /\ [](\A r \in hist.registry_writes : r.by = "main" /\ r.started = 0)
    /\ [](registry.exists => hist.registry_writes # {})
    /\ [][registry' # registry =>
            mainpc = "begin" /\ nstarted = 0 /\ \A w \in Procs : wk[w].pc = "unstarted"]_vars
    /\ [][nstarted > 0 => hist'.registry_writes = hist.registry_writes]_vars

\* main has returned from a dispatch on every worker, each of which built its own
\* client on the cache directory whose registry main had written
RegistryWitness ==
    /\ mainpc = "done"
    /\ threads = MaxThreads
    /\ DOMAIN registry.prompt_hashes = Prompts
    /\ hist.registry_writes # {}
    /\ \A w \in Workers : wk[w].pc = "exited"

\* C13: when the API key or the endpoint id is missing the run ends in the
\* configuration error of the import: no directory and no registry file is made,
\* the queue stays empty, no worker is started and no remote request is issued.
ConfigErrorAborts ==
    (~env.API_KEY \/ ~env.ENDPOINT_ID) =>
      /\ mainpc \in {"import", "config_error"}
      /\ dirs = {} /\ registry = NoRegistry /\ DOMAIN cache = {} /\ DOMAIN output = {}
      /\ q = <<>> /\ nstarted = 0
      /\ \A i \in Items : hist.attempted[i] = 0
      /\ \A w \in Procs : wk[w].pc = "unstarted" /\ wk[w].requests = 0

\* the run has ended in the configuration error with only the endpoint id
\* missing, on a full work list
ConfigErrorWitness ==
    /\ mainpc = "config_error"
    /\ env.API_KEY /\ ~env.ENDPOINT_ID
    /\ Len(frame_queue) = MaxItems


\* the processes main has started
Started == {w \in Procs : wk[w].pc # "unstarted"}

\* the step in which worker w dequeues a stop marker
TakesMarker(w) == hist'.markers[w] = hist.markers[w] + 1

\* C16: main starts exactly `threads` processes and puts exactly `threads` stop
\* markers, each after every item was put: no item is behind a marker in the
\* queue, a worker dequeues a marker only when no item is queued, and a worker
\* ends only in the step that dequeues a marker, never by being terminated.
StopMarkersLast ==
    /\ [](/\ Cardinality(Started) = nstarted /\ nstarted <= threads /\ nstops <= threads
          /\ mainpc \in {"stop", "join", "done"} => nstarted = threads
          /\ mainpc \in {"join", "done"} => nstops = threads
          /\ nstops > 0 => mainpc \in {"stop", "join", "done"}
          /\ \A i, j \in 1..Len(q) : i < j /\ q[i] = 0 => q[j] = 0
          /\ \A w \in Procs : wk[w].pc # "crashed")
    /\ [][\A w \in Procs :
            /\ TakesMarker(w) => Range(q) \cap Items = {}
            /\ (wk[w].pc # "exited" /\ wk'[w].pc = "exited") => TakesMarker(w)]_vars

\* main waits in join: one of two workers has ended on its stop marker while the
\* other is still at work on an item of a full work list
StopMarkersWitness ==
    /\ mainpc = "join" /\ threads = MaxThreads /\ Len(frame_queue) = MaxItems
    /\ \E w, v \in Workers :
         /\ wk[w].pc = "exited" /\ hist.markers[w] = 1
         /\ wk[v].pc \in {"lookup", "request", "cache_write", "write_out"}


\* C17: only the remote call is retried: a call whose last failure was the write
\* of the cache entry (its remote attempt had been answered) does not go on to
\* another remote request.
CacheWriteNotRetried ==
    \A w \in Procs : wk[w].pc = "request" => wk[w].last_cause # "OSError"

\* C18: when workers run get_or_run for the same key at once, what a call returns
\* to its worker is a complete payload of that key, never an empty or partly
\* written entry.
SameKeyRaceAtomic ==
    \A w \in Procs :
      wk[w].pc = "write_out" =>
        /\ wk[w].result # Partial
        /\ wk[w].result \in Payloads(wk[w])


\* the cache entry `name` was stored by get_or_run for prompt pr
StoredFor(name, pr) ==
    \E f \in 0..MaxFrame : name = cache_key(InputPath(InputDir, f), pr)

\* C15: after clear_cache_except(prompts_to_keep) with dry_run false every entry
\* that was stored for a prompt to keep is still there, unchanged, and every
\* entry stored for another prompt is gone.
ClearKeepsPrompts ==
    (maint.calls > 0 /\ ~maint.dry_run) =>
      \A name \in DOMAIN maint.before :
        IF \E pr \in maint.prompts_to_keep : StoredFor(name, pr)
        THEN name \in DOMAIN maint.after /\ maint.after[name] = maint.before[name]
        ELSE name \notin DOMAIN maint.after


\* the readable frames of the selected scene's range
ReadableRange(c) == (1..c.nframes) \cap c.readable

\* C14: with --overwrite, when main has ended a remote request has been issued
\* for every readable frame of the range, and a frame whose request was answered
\* and written holds the new result, also where an output file existed.
OverwriteProcessesAll ==
    (pcl.overwrite /\ ClientEnded(pcl)) =>
      \A f \in ReadableRange(pcl) :
        /\ pcl.requests[f] >= 1
        /\ f \in DOMAIN pcl.out => pcl.out[f] # "old"

\* C19: every dequeued frame causes one q.task_done() call and one progress-bar
\* increment, never more: task_done has not been called more often than frames
\* were put, no thread has died, and the bar does not count more than the frames
\* dequeued.
OneTaskDonePerFrame ==
    /\ \A t \in Threads :
         /\ pcl.th[t].dones <= 1 /\ pcl.th[t].updates <= 1
         /\ (pcl.th[t].pc \in {"get", "exited"} /\ pcl.th[t].frame_number # 0) =>
                pcl.th[t].dones = 1 /\ pcl.th[t].updates = 1
         /\ pcl.th[t].pc # "died"
    /\ pcl.ndone <= pcl.nput
    /\ pcl.pbar.n <= pcl.ndequeued

\* C20: main eventually returns; q.join() has returned only when every frame put
\* on the queue has been dequeued and is done with, and when main has returned
\* every thread has ended on a stop marker.
ClientTerminates ==
    /\ <>(pcl.pc = "done")
    /\ [](pcl.pc \in {"stop", "join_threads", "done"} =>
            /\ pcl.ndequeued = pcl.nput
            /\ \A t \in Threads : pcl.th[t].pc \in {"unstarted", "get", "exited"})
    /\ [](pcl.pc = "done" /\ pcl.nstarted > 0 =>
            \A t \in 1..pcl.threads : pcl.th[t].pc = "exited")



\* ------------------------------------------------ the prompt-hash registry
MaxRegistryLoads == 2
MaxRegistryCalls == 3
\* the prompts handed to update_prompt_hashes
RegistryPrompts == Prompts \cup {""}

InitRegistry ==
    /\ mode = "registry"
    /\ InitIdle
    /\ pcl = NoClient
    /\ sched = NoSched /\ report = NoReport /\ decache = NoDecache
    /\ regclient = NoRegClient

\* CachingImg2ImgClient(cache_dir), lines 19-24: the cache directory is made and
\* the new client loads the registry file; an earlier client is dropped
NewRegClient ==
    /\ mode = "registry"
    /\ regclient.loads < MaxRegistryLoads
    /\ regclient' = [regclient EXCEPT !.alive = TRUE, !.loads = @ + 1,
                                      !.prompt_hashes = LoadPromptHashes(registry)]
    /\ dirs' = dirs \cup {CacheDir}
    /\ UNCHANGED <<mode, no_cache, threads, frame_queue, keycalc, env, maint, pcl, sched,
                   report, decache, registry, mainVars, q, total_frames, counter, lock,
                   cache, output, wk, hist>>

\* client.update_prompt_hashes(prompts), lines 43-48: the missing prompts are
\* added to the mapping in memory and the whole mapping is saved
UpdatePromptHashes ==
    /\ mode = "registry"
    /\ regclient.alive
    /\ regclient.calls < MaxRegistryCalls
    /\ \E prompts \in SUBSET RegistryPrompts :
         LET hashes == AddPromptHashes(regclient.prompt_hashes, prompts) IN
           /\ regclient' = [regclient EXCEPT !.prompt_hashes = hashes, !.calls = @ + 1,
                                             !.prompts = prompts]
           /\ registry' = SavePromptHashes(hashes)
    /\ UNCHANGED <<mode, no_cache, threads, frame_queue, keycalc, env, maint, pcl, sched,
                   report, decache, dirs, mainVars, q, total_frames, counter, lock,
                   cache, output, wk, hist>>

NextRegistry == NewRegClient \/ UpdatePromptHashes

\* clients made one after the other on one cache directory, each updating the
\* registry
RegistrySpec == InitRegistry /\ [][NextRegistry]_vars



\* ----------------------------------------------------------- decache_frame
MaxDecacheCalls == 1
\* the frame numbers given to find_and_decache_frame: those of the dispatcher and
\* one that has no file
DecacheFrames == 0..(MaxFrame + 1)
\* the names of the entries in the cache directory and the contents of the files:
\* two images, and a file left empty
EntryNames == {get_cache_key(f, pr) : f \in 0..MaxFrame, pr \in Prompts}
Contents == {<<"image", "a">>, <<"image", "b">>, Partial}
Directories(names) == UNION {[d -> Contents] : d \in SUBSET names}

\* compute_checksum, lines 5-11: the SHA-256 digest of the file's bytes, taken as
\* free of collisions: equal digests are digests of equal contents
compute_checksum(data) == <<"sha256", data>>

\* find_and_decache_frame, lines 24-27: the entries whose name starts with
\* frame_{frame_number:05d}_
CachedFiles(dir, frame_number) ==
    {n \in DOMAIN dir : StartsWith(n, FramePrefix \o Format05d(frame_number) \o Underscore)}

\* a mutant of ChecksumMatch: every entry of the frame counts as a match
ChecksumMatchAny(cached, out) == TRUE

\* find_and_decache_frame, lines 34-37: the checksums of the entry and of the
\* output frame are equal
ChecksumMatch(cached, out) == compute_checksum(cached) = compute_checksum(out)

\* os.remove(path)
Remove(dir, name) == [n \in DOMAIN dir \ {name} |-> dir[n]]

InitDecache ==
    /\ mode = "decache"
    /\ keycalc = NoKeyCalc /\ env = EnvSet /\ maint = NoMaint /\ pcl = NoClient
    /\ dirs = {CacheDir, OutputDir} /\ registry = NoRegistry
    /\ sched = NoSched /\ report = NoReport /\ regclient = NoRegClient
    /\ decache = NoDecache
    /\ no_cache = FALSE /\ threads = 1 /\ frame_queue = <<>>
    /\ mainpc = "none" /\ nstarted = 0 /\ nstops = 0 /\ njoined = 0
    /\ q = <<>> /\ total_frames = 0 /\ counter = 0 /\ lock = 0
    /\ cache \in Directories(EntryNames)
    /\ output \in Directories(0..MaxFrame)
    /\ wk = [w \in Procs |-> IdleProc("direct")]
    /\ hist = NoHistory

\* find_and_decache_frame(frame_number, cache_dir, output_dir, dry_run), lines
\* 13-54. Without the output frame, without an entry of the frame, or without a
\* match it returns with every file in place. Else the loop stops at the first
\* entry (in the order of os.listdir, which is any order) whose checksum is the
\* output frame's: unless dry_run, that entry is removed, then the output frame.
FindAndDecacheFrame ==
    /\ mode = "decache"
    /\ decache.calls < MaxDecacheCalls
    /\ \E frame_number \in DecacheFrames, dry_run \in BOOLEAN :
         LET cached_files == CachedFiles(cache, frame_number)
             matches == IF frame_number \in DOMAIN output
                        THEN {n \in cached_files :
                                ChecksumMatch(cache[n], output[frame_number])}
                        ELSE {} IN
           /\ decache' = [calls |-> decache.calls + 1, frame_number |-> frame_number,
                          dry_run |-> dry_run, cache_before |-> cache,
                          output_before |-> output]
           /\ IF matches = {} \/ dry_run
              THEN UNCHANGED <<cache, output>>
              ELSE \E first \in matches :
                     /\ cache' = Remove(cache, first)
                     /\ output' = Remove(output, frame_number)
    /\ UNCHANGED <<mode, no_cache, threads, frame_queue, keycalc, env, maint, pcl, sched,
                   report, regclient, fileVars, mainVars, q, total_frames, counter, lock,
                   wk, hist>>

\* decache_frame.py run on a cache directory and an output directory
DecacheSpec == InitDecache /\ [][FindAndDecacheFrame]_vars



\* ------------------------------------------------------ worker: the ETA
MaxTotal == 4
\* end - start_time.value in seconds: a clock that was set back, no time at all,
\* seconds, half a day, a day and more
ElapsedValues == {-1, 0, 1, 2, 3, 5, 43200, 86400, 90000}

Colon == <<":">>
NotAvailable == <<"N", "/", "A">>
\* f"{n:02d}"
TwoDigits(n) == ZeroFill(IntToText(n), 2)
\* the literal "00:00:00" of line 52
ZeroClock == <<"0", "0", ":", "0", "0", ":", "0", "0">>

\* a mutant of RoundHalfEven: the fraction is cut off
RoundDown(num, den) == num \div den

\* round(num / den) for num >= 0, den > 0: the nearest integer, the even one of
\* the two when both are equally near
RoundHalfEven(num, den) ==
    LET quot == num \div den
        rest == num % den IN
      IF 2 * rest < den THEN quot
      ELSE IF 2 * rest > den THEN quot + 1
      ELSE IF quot % 2 = 0 THEN quot ELSE quot + 1

\* time.strftime("%H:%M:%S", time.gmtime(secs)): the time of day, secs seconds
\* after midnight of 1 January 1970
StrfTime(secs) ==
    TwoDigits((secs \div 3600) % 24) \o Colon \o TwoDigits((secs \div 60) % 60)
        \o Colon \o TwoDigits(secs % 60)

\* worker, lines 46-57. frame_rate = total_written / elapsed is positive exactly
\* when elapsed is; remaining / frame_rate is remaining * elapsed / total_written
EtaStr(total, total_written, elapsed) ==
    LET remaining == IF total - total_written > 0 THEN total - total_written ELSE 0 IN
      IF remaining = 0 THEN ZeroClock
      ELSE IF elapsed > 0
      THEN StrfTime(RoundHalfEven(remaining * elapsed, total_written))
      ELSE NotAvailable

InitEta ==
    /\ mode = "eta"
    /\ InitIdle
    /\ pcl = NoClient
    /\ sched = NoSched /\ regclient = NoRegClient /\ decache = NoDecache
    /\ report \in {[NoReport EXCEPT !.total_frames = t, !.total_written = w, !.elapsed = e] :
                      t \in 1..MaxTotal, w \in 1..(MaxTotal + 1), e \in ElapsedValues}
    /\ report.total_written <= report.total_frames + 1

\* a worker reports a completion: the ETA of lines 46-57 for the counter value
\* it read, the total it was given and the time that has passed
ReportEta ==
    /\ mode = "eta"
    /\ report.calls = 0
    /\ report' = [report EXCEPT !.calls = 1,
                                !.eta_str = EtaStr(report.total_frames, report.total_written,
                                                   report.elapsed)]
    /\ UNCHANGED <<mode, no_cache, threads, frame_queue, keycalc, env, maint, pcl, sched,
                   regclient, decache, fileVars, mainVars, q, total_frames, counter, lock,
                   cache, output, wk, hist>>

EtaSpec == InitEta /\ [][ReportEta]_vars



\* ------------------------------------------------- main: the work list
MaxScenes == 3
MaxSceneFrame == 2
MaxInputFrame == 3
\* the prompt column of scenes.csv: empty, or a text after a blank
CsvPrompts == {"", " p"}
\* the rows of scenes.csv as <<frame, prompt>>; the name of row i is i
Schedules ==
    UNION {[1..n -> (0..MaxSceneFrame) \X CsvPrompts] : n \in 0..MaxScenes}

\* str.strip() on the prompts of the model
Strip(t) == IF t = " p" THEN "p" ELSE t

\* get_scene_ranges(scenes, total_frames), lines 18-24
get_scene_ranges(scenes, total) ==
    [i \in 1..Len(scenes) |->
       [name |-> i,
        start |-> scenes[i][1],
        end |-> IF i < Len(scenes) THEN scenes[i + 1][1] - 1 ELSE total - 1,
        prompt |-> Strip(scenes[i][2])]]

\* main, lines 67-69: with scene_names given (not None, not empty) only the ranges
\* of the named scenes are kept
FilterScenes(ranges, scene_names) ==
    LET Named(r) == r.name \in scene_names IN
      IF scene_names # {} THEN SelectSeq(ranges, Named) ELSE ranges

\* a mutant of QueuedFrames: the loop over the range ends at the first frame
\* without an input file
RECURSIVE QueuedFramesUntilMissing(_, _, _)
QueuedFramesUntilMissing(start, end, present) ==
    IF start > end \/ start \notin present THEN <<>>
    ELSE <<start>> \o QueuedFramesUntilMissing(start + 1, end, present)

\* main, lines 81-86: the frames of range(start, end + 1) whose input file exists,
\* in order; the others are skipped with a warning
RECURSIVE QueuedFrames(_, _, _)
QueuedFrames(start, end, present) ==
    IF start > end THEN <<>>
    ELSE (IF start \in present THEN <<start>> ELSE <<>>)
           \o QueuedFrames(start + 1, end, present)

\* main, lines 78-86: the items appended for the ranges k..Len(ranges), as
\* <<frame_num, prompt>> (input_path is InputPath of the frame number)
RECURSIVE BuildFrameQueue(_, _, _)
BuildFrameQueue(ranges, k, present) ==
    IF k > Len(ranges) THEN <<>>
    ELSE LET frames == QueuedFrames(ranges[k].start, ranges[k].end, present) IN
           [i \in 1..Len(frames) |-> <<frames[i], ranges[k].prompt>>]
             \o BuildFrameQueue(ranges, k + 1, present)

\* main, lines 83-85: the warnings printed, as <<range, frame_num>>
MissingWarnings(ranges, present) ==
    {<<k, f>> \in (1..Len(ranges)) \X (0..MaxInputFrame + MaxSceneFrame) :
        /\ ranges[k].start <= f /\ f <= ranges[k].end
        /\ f \notin present}

\* main, line 74: the prompts that are not empty
PromptsOf(ranges) == {ranges[k].prompt : k \in {j \in 1..Len(ranges) : ranges[j].prompt # ""}}

InitBuild ==
    /\ mode = "build"
    /\ keycalc = NoKeyCalc /\ env = EnvSet /\ maint = NoMaint /\ pcl = NoClient
    /\ dirs = {} /\ registry = NoRegistry
    /\ report = NoReport /\ regclient = NoRegClient /\ decache = NoDecache
    /\ sched \in {[NoSched EXCEPT !.program = pg, !.scenes = sc, !.present = pr,
                                  !.scene_names = sn] :
                     pg \in {"parallel", "batch"}, sc \in Schedules,
                     pr \in SUBSET (0..MaxInputFrame), sn \in SUBSET (1..MaxScenes)}
    /\ no_cache = FALSE /\ threads = 1 /\ frame_queue = <<>>
    /\ mainpc = "scan" /\ nstarted = 0 /\ nstops = 0 /\ njoined = 0
    /\ q = <<>> /\ total_frames = 0 /\ counter = 0 /\ lock = 0
    /\ cache = [k \in {} |-> NoData]
    /\ output = [k \in {} |-> NoData]
    /\ wk = [w \in Procs |-> IdleProc("worker")]
    /\ hist = NoHistory

\* main, lines 63-69 (batch_scene_img2img.main, lines 26-32): the input frames
\* are counted, the ranges of the scenes computed from that count, and the
\* ranges of the scenes that were not asked for dropped
MainScan ==
    /\ mode = "build" /\ mainpc = "scan"
    /\ total_frames' = Cardinality(sched.present)
    /\ sched' = [sched EXCEPT !.scene_ranges =
                    FilterScenes(get_scene_ranges(sched.scenes, Cardinality(sched.present)),
                                 sched.scene_names)]
    /\ mainpc' = IF sched.program = "parallel" THEN "queue" ELSE "loop"
    /\ UNCHANGED <<mode, no_cache, threads, frame_queue, keycalc, env, maint, pcl, report,
                   regclient, decache, fileVars, nstarted, nstops, njoined, q, counter, lock,
                   cache, output, wk, hist>>

\* main, lines 70-87: the directories and the client are made, the registry is
\* updated with the prompts that are not empty, and the work list is built from
\* every range. random.shuffle then reorders the list; the list is kept in the
\* order it was built in, which stands for every order.
MainQueue ==
    /\ mode = "build" /\ mainpc = "queue"
    /\ dirs' = dirs \cup {OutputDir, CacheDir}
    /\ registry' = UpdatedRegistry(registry, PromptsOf(sched.scene_ranges))
    /\ sched' = [sched EXCEPT !.prompts = PromptsOf(sched.scene_ranges),
                              !.warnings = MissingWarnings(sched.scene_ranges, sched.present)]
    /\ frame_queue' = BuildFrameQueue(sched.scene_ranges, 1, sched.present)
    /\ mainpc' = "enqueue"
    /\ UNCHANGED <<mode, no_cache, threads, keycalc, env, maint, pcl, report, regclient,
                   decache, nstarted, nstops, njoined, q, total_frames, counter, lock,
                   cache, output, wk, hist>>

\* batch_scene_img2img.main, lines 35-37: the passes of the two loops in order,
\* as <<range, frame_num>>, for the ranges k..Len(ranges)
RECURSIVE LoopPasses(_, _)
LoopPasses(ranges, k) ==
    IF k > Len(ranges) THEN <<>>
    ELSE LET first == ranges[k].start
             count == IF ranges[k].end >= first THEN ranges[k].end - first + 1 ELSE 0 IN
           [i \in 1..count |-> <<k, first + i - 1>>] \o LoopPasses(ranges, k + 1)

\* batch_scene_img2img.main, lines 33-46: the directories and the client are
\* made, then every frame of every range is taken in turn: without an input file
\* it is skipped with a warning, else it is handed to get_or_run and the result
\* is written to the output directory. get_or_run is not inside a try: when it
\* raises for a frame, main ends there. frame_queue holds the items processed.
BatchLoop ==
    /\ mode = "build" /\ mainpc = "loop"
    /\ LET ranges == sched.scene_ranges
           passes == LoopPasses(ranges, 1)
           HasInput(ps) == ps[2] \in sched.present IN
         \E n \in 0..Len(passes) :
           /\ n < Len(passes) => HasInput(passes[n + 1])
           /\ LET before == SubSeq(passes, 1, n)
                  taken == SelectSeq(before, HasInput)
                  done == [i \in 1..Len(taken) |-> <<taken[i][2], ranges[taken[i][1]].prompt>>]
                  Latest(f) == CHOOSE i \in 1..Len(done) :
                                 done[i][1] = f /\ \A j \in (i + 1)..Len(done) : done[j][1] # f
                  Entry(it) == cache_key(InputPath(InputDir, it[1]), it[2])
                  image(it) == <<it[1], it[2], "v1">> IN
                /\ frame_queue' = done
                /\ mainpc' = IF n = Len(passes) THEN "done" ELSE "raised"
                /\ sched' = [sched EXCEPT !.warnings =
                                {before[i] : i \in {j \in 1..n : ~HasInput(before[j])}}]
                /\ output' = [f \in {done[i][1] : i \in 1..Len(done)} |-> image(done[Latest(f)])]
                /\ cache' = [name \in {Entry(done[i]) : i \in 1..Len(done)} |->
                               image(done[CHOOSE i \in 1..Len(done) : Entry(done[i]) = name])]
    /\ dirs' = dirs \cup {OutputDir, CacheDir}
    /\ UNCHANGED <<mode, no_cache, threads, keycalc, env, maint, pcl, report, regclient,
                   decache, registry, nstarted, nstops, njoined, q, total_frames, counter,
                   lock, wk, hist>>

NextBuild == MainScan \/ MainQueue \/ MainEnqueue \/ BatchLoop

\* main from its first line until the work list is on the queue (and the whole
\* of the sequential main)
BuildSpec == InitBuild /\ [][NextBuild]_vars


\* C21: a get_or_run call that found no entry for its key and raised leaves no
\* entry for that key: the cache is as the call found it.
FailedCallLeavesNoEntry ==
    \A w \in Procs :
      (wk[w].caller = "direct" /\ wk[w].pc = "raised" /\ ~wk[w].hit) =>
        ~Exists(cache, CachePath(wk[w]))


\* C25: on a miss the call stops at its first answered attempt: a call that
\* returned had one attempt answered, the k-th, made k requests and slept k - 1
\* times, and what it returned is that attempt's image, which is the entry; no
\* request is made once an attempt has been answered.
RetryStopsAtSuccess ==
    \A w \in Procs :
      /\ (wk[w].caller = "direct" /\ wk[w].pc = "returned" /\ ~wk[w].hit) =>
           /\ wk[w].answered = 1
           /\ wk[w].requests = wk[w].attempt
           /\ wk[w].sleeps = wk[w].attempt - 1
           /\ wk[w].result \in Payloads(wk[w])
           /\ Exists(cache, CachePath(wk[w])) /\ cache[CachePath(wk[w])] = wk[w].result
      /\ (wk[w].caller = "direct" /\ wk[w].pc = "request") => wk[w].answered = 0


\* the items of the work list for frame f
ItemsOf(f) == {i \in Items : frame_queue[i][1] = f}

\* C26: a worker that is about to write an output frame holds the bytes of the
\* cache entry of its item's key, which exists; and when the dispatch has ended,
\* every output frame whose items all succeeded has a cache entry of its frame
\* number with the same content.
OutputMatchesEntry ==
    /\ \A w \in Procs :
         (wk[w].caller = "worker" /\ wk[w].pc = "write_out" /\ CacheEnabled(wk[w])) =>
            /\ Exists(cache, CachePath(wk[w]))
            /\ cache[CachePath(wk[w])] = wk[w].result
    /\ (mode = "dispatch" /\ mainpc = "done") =>
         \A f \in DOMAIN output :
           (\A i \in ItemsOf(f) : hist.outcome[i] = "ok") =>
              \E pr \in Prompts :
                /\ Exists(cache, get_cache_key(f, pr))
                /\ cache[get_cache_key(f, pr)] = output[f]


\* the mapping `new` holds every prompt of `old`, with the same value
Extends(new, old) == \A pr \in DOMAIN old : pr \in DOMAIN new /\ new[pr] = old[pr]

\* C28: over calls of update_prompt_hashes and reloads the registry only grows,
\* in the file and in memory: a prompt stays, with its value; every value is
\* the 8-character hash prefix of the prompt's cache keys; and every save
\* writes the whole mapping held in memory.
RegistryOnlyGrows ==
    /\ [][Extends(registry'.prompt_hashes, registry.prompt_hashes)]_vars
    /\ [][Extends(regclient'.prompt_hashes, regclient.prompt_hashes)]_vars
    /\ [](\A pr \in DOMAIN registry.prompt_hashes :
            /\ Len(registry.prompt_hashes[pr]) = HashLen
            /\ \A f \in 0..MaxFrame :
                 LastPart(get_cache_key(f, pr)) = registry.prompt_hashes[pr] \o PngSuffix)
    /\ [][registry' # registry =>
            registry'.exists /\ registry'.prompt_hashes = regclient'.prompt_hashes]_vars

\* a second client has loaded the file an earlier one saved, and its update
\* added a prompt to the ones it found
RegistryGrowsWitness ==
    /\ mode = "registry" /\ regclient.loads = 2 /\ regclient.calls >= 2
    /\ regclient.prompts = {"q"}
    /\ DOMAIN registry.prompt_hashes = {"p", "q"}
    /\ registry.prompt_hashes = regclient.prompt_hashes


\* the entries of frame f in the directory dir
EntriesOf(dir, f) == {n \in DOMAIN dir : \E pr \in Prompts : n = get_cache_key(f, pr)}

\* C30: find_and_decache_frame with dry_run removes no file; without it the
\* output frame is removed only together with one cache entry of its frame
\* number that held the same bytes, and no other file is removed or changed;
\* nothing is removed when the output frame is absent or no entry of the frame
\* holds its bytes.
DecacheRemovesPair ==
    decache.calls > 0 =>
      LET f == decache.frame_number
          gone == DOMAIN decache.cache_before \ DOMAIN cache
          out_gone == DOMAIN decache.output_before \ DOMAIN output
          same == cache = decache.cache_before /\ output = decache.output_before IN
        /\ DOMAIN cache \subseteq DOMAIN decache.cache_before
        /\ DOMAIN output \subseteq DOMAIN decache.output_before
        /\ \A n \in DOMAIN cache : cache[n] = decache.cache_before[n]
        /\ \A g \in DOMAIN output : output[g] = decache.output_before[g]
        /\ decache.dry_run => same
        /\ out_gone \subseteq {f}
        /\ (out_gone # {}) <=> (gone # {})
        /\ gone # {} =>
             \E n \in EntriesOf(decache.cache_before, f) :
               gone = {n} /\ decache.cache_before[n] = decache.output_before[f]
        /\ (\/ f \notin DOMAIN decache.output_before
            \/ \A n \in EntriesOf(decache.cache_before, f) :
                 decache.cache_before[n] # decache.output_before[f]) => same

\* a call without dry_run removed the output frame and the entry that held its
\* bytes, while another entry of the same frame, with other bytes, stays
DecacheWitness ==
    /\ decache.calls > 0 /\ ~decache.dry_run
    /\ decache.frame_number \in DOMAIN decache.output_before
    /\ decache.frame_number \notin DOMAIN output
    /\ Cardinality(DOMAIN decache.cache_before \ DOMAIN cache) = 1
    /\ EntriesOf(cache, decache.frame_number) # {}


\* the number a digit stands for
DigitValue(c) == CHOOSE d \in 0..9 : Digits[d + 1] = c
\* t is a time of day written HH:MM:SS
IsClock(t) ==
    /\ Len(t) = 8 /\ t[3] = ":" /\ t[6] = ":"
    /\ \A i \in {1, 2, 4, 5, 7, 8} : IsDigit(t[i])
    /\ 10 * DigitValue(t[1]) + DigitValue(t[2]) < 24
    /\ DigitValue(t[4]) < 6 /\ DigitValue(t[7]) < 6
\* the seconds the text HH:MM:SS stands for
ClockSeconds(t) ==
    3600 * (10 * DigitValue(t[1]) + DigitValue(t[2]))
      + 60 * (10 * DigitValue(t[4]) + DigitValue(t[5]))
      + 10 * DigitValue(t[7]) + DigitValue(t[8])
\* secs is within half a second of remaining / rate, rate = total_written / elapsed
NearestSecond(secs, remaining, total_written, elapsed) ==
    LET diff == secs * total_written - remaining * elapsed IN
      2 * (IF diff < 0 THEN 0 - diff ELSE diff) <= total_written

ListBuilt == mode = "build" /\ mainpc \in {"start", "done", "raised"}

\* the frames of a range
FramesOf(r) == {f \in 0..(MaxInputFrame + MaxSceneFrame) : r.start <= f /\ f <= r.end}

\* C22: a frame of a scene range without an input file is never enqueued or
\* processed and only gives a warning; every other frame of the range and of the
\* later ranges is enqueued (processed, unless get_or_run raised in the
\* sequential main), and the total handed to the workers counts the enqueued
\* frames only.
MissingInputsSkipped ==
    ListBuilt =>
      LET ranges == sched.scene_ranges
          Wanted == {<<k, f>> \in (1..Len(ranges)) \X (0..(MaxInputFrame + MaxSceneFrame)) :
                        f \in FramesOf(ranges[k]) /\ f \in sched.present} IN
        /\ \A i \in 1..Len(frame_queue) : frame_queue[i][1] \in sched.present
        /\ \A w \in sched.warnings :
             w[2] \in FramesOf(ranges[w[1]]) /\ w[2] \notin sched.present
        /\ mainpc # "raised" =>
             /\ \A k \in 1..Len(ranges) : \A f \in FramesOf(ranges[k]) :
                  IF f \in sched.present
                  THEN \E i \in 1..Len(frame_queue) : frame_queue[i] = <<f, ranges[k].prompt>>
                  ELSE <<k, f>> \in sched.warnings
             /\ Len(frame_queue) = Cardinality(Wanted)
        /\ mainpc = "start" =>
             /\ total_frames = Len(frame_queue)
             /\ Len(q) = Len(frame_queue)

\* the work list is on the queue; a frame in the middle of a range had no input
\* file, a later frame of that range and one of a later range are enqueued, and
\* the total counts fewer frames than there are input files
MissingInputsWitness ==
    /\ ListBuilt /\ mainpc = "start" /\ sched.program = "parallel"
    /\ \E w \in sched.warnings :
         /\ \E i \in 1..Len(frame_queue) :
              /\ frame_queue[i][1] > w[2]
              /\ frame_queue[i][1] \in FramesOf(sched.scene_ranges[w[1]])
         /\ \E k \in (w[1] + 1)..Len(sched.scene_ranges) :
              \E f \in FramesOf(sched.scene_ranges[k]) : f \in sched.present
    /\ total_frames = Len(frame_queue) /\ total_frames < Cardinality(sched.present)


\* the highest frame number with an input file
Highest(S) == CHOOSE x \in S : \A y \in S : y <= x

\* C23: row i of the schedule gets the frames from its own frame up to the frame
\* before the next row's, the final row up to the highest frame number that has
\* an input file; and the ranges kept by the scene-name filter are the ranges of
\* the named rows, unchanged.
SceneRangesAsStated ==
    (mode = "build" /\ mainpc # "scan" /\ sched.present # {}) =>
      /\ \A k \in 1..Len(sched.scene_ranges) :
           LET r == sched.scene_ranges[k] IN
             /\ r.start = sched.scenes[r.name][1]
             /\ r.end = IF r.name < Len(sched.scenes)
                        THEN sched.scenes[r.name + 1][1] - 1
                        ELSE Highest(sched.present)
      /\ {sched.scene_ranges[k].name : k \in 1..Len(sched.scene_ranges)} =
            IF sched.scene_names # {}
            THEN (1..Len(sched.scenes)) \cap sched.scene_names
            ELSE 1..Len(sched.scenes)

\* C24: the work list main has put on the queue holds every frame number at most
\* once, whatever the schedule and the scene-name filter.
OneItemPerFrame ==
    (mode = "build" /\ sched.program = "parallel" /\ mainpc = "start") =>
      \A i, j \in 1..Len(frame_queue) : i # j => frame_queue[i][1] # frame_queue[j][1]

\* C29: the work list main has put on the queue holds no item whose prompt is
\* empty: the frames of a scene with an empty prompt are not enqueued.
EmptyPromptNotEnqueued ==
    (mode = "build" /\ sched.program = "parallel" /\ mainpc = "start") =>
      \A i \in 1..Len(frame_queue) : frame_queue[i][2] # ""

====
